---- MODULE Spec2Model ----
(***************************************************************************)
(* Dev_Events: the Event and Booking models (slug, date and time           *)
(* normalisation, the referential check of a Booking) and the cached       *)
(* Mongoose connection.                                                    *)
(*                                                                         *)
(* Strings are sequences of one-character strings, so that trimming,       *)
(* lower-casing, the regular expressions and the padding of the source are *)
(* computed character by character.                                        *)
(***************************************************************************)
EXTENDS Integers, Sequences, FiniteSets, TLC

VARIABLES
    \* ---- src/lib/mongodb.ts: the connection cache and its callers
    cachedConn,      \* cached.conn: 0 is null, k > 0 the handle of attempt k
    cachedPromise,   \* cached.promise: 0 is null, k > 0 the promise of attempt k
    promiseState,    \* attempt k -> "pending" | "resolved" | "rejected"
    connectCalls,    \* how many times mongoose.connect was invoked
    pc,              \* caller -> "idle" | "awaiting" | "returned" | "threw"
    awaiting,        \* caller -> the promise its await captured (0: none)
    ret,             \* caller -> handle returned / error thrown by its last call
    via,             \* caller -> the path its last call took through the function
    calls,           \* caller -> number of calls it has made
    \* ---- the Event and Booking collections and the saves in progress
    events,          \* event id -> persisted Event document, or NoDoc
    bookings,        \* the persisted Booking documents, in insertion order
    eventDoc,        \* the Event document in memory: being edited, or saved (and how)
    bookingSave,     \* the Booking save in progress: idle, checking, writing or done
    \* ---- a pure function applied to one argument
    arg,             \* the argument
    res              \* the result, None until the function was applied

connVars == <<cachedConn, cachedPromise, promiseState, connectCalls, pc, awaiting, ret, via, calls>>
dbVars == <<events, bookings, eventDoc, bookingSave>>
fnVars == <<arg, res>>
vars == <<connVars, dbVars, fnVars>>

None == [none |-> TRUE]

-----------------------------------------------------------------------------
(* Bounds *)

\* longest title given to slugify
MaxTitleLen == 5
\* longest string given to normalizeTime
MaxTimeLen == 7
\* Events ever inserted
MaxEvents == 2
\* Bookings ever inserted
MaxBookings == 2
\* concurrent callers of connectToDatabase
NumCallers == 3
\* calls each caller makes
MaxCalls == 2

-----------------------------------------------------------------------------
(* Characters and strings *)

DigitChars == {"0", "1", "2", "3", "4", "5", "6", "7", "8", "9"}
\* String.prototype.trim removes white space and line terminators
WhiteSpaceChars == {" ", "\t", "\n"}

\* String.prototype.toLowerCase on one character; "E_ACUTE" and "e_acute" stand
\* for U+00C9 and U+00E9, letters outside a-z.
toLowerCaseChar(c) ==
    CASE c = "A" -> "a"
      [] c = "B" -> "b"
      [] c = "H" -> "h"
      [] c = "I" -> "i"
      [] c = "X" -> "x"
      [] c = "E_ACUTE" -> "e_acute"
      [] OTHER -> c

toLowerCase(s) == [i \in 1..Len(s) |-> toLowerCaseChar(s[i])]

RECURSIVE trimStart(_)
trimStart(s) ==
    IF s # <<>> /\ Head(s) \in WhiteSpaceChars THEN trimStart(Tail(s)) ELSE s

RECURSIVE trimEnd(_)
trimEnd(s) ==
    IF s # <<>> /\ s[Len(s)] \in WhiteSpaceChars THEN trimEnd(SubSeq(s, 1, Len(s) - 1)) ELSE s

trim(s) == trimEnd(trimStart(s))

-----------------------------------------------------------------------------
(* slugify *)

\* the character class [a-z0-9]
SlugChar(c) == c \in {"a", "b", "h", "i", "x"} \cup DigitChars

\* .replace(/[^a-z0-9]+/g, '-'): every maximal run of other characters becomes one hyphen
RECURSIVE replaceNonAlnumRuns(_, _)
replaceNonAlnumRuns(s, inRun) ==
    IF s = <<>> THEN <<>>
    ELSE IF SlugChar(Head(s)) THEN <<Head(s)>> \o replaceNonAlnumRuns(Tail(s), FALSE)
    ELSE IF inRun THEN replaceNonAlnumRuns(Tail(s), TRUE)
    ELSE <<"-">> \o replaceNonAlnumRuns(Tail(s), TRUE)

RECURSIVE stripLeadingHyphens(_)
stripLeadingHyphens(s) ==
    IF s # <<>> /\ Head(s) = "-" THEN stripLeadingHyphens(Tail(s)) ELSE s

RECURSIVE stripTrailingHyphens(_)
stripTrailingHyphens(s) ==
    IF s # <<>> /\ s[Len(s)] = "-" THEN stripTrailingHyphens(SubSeq(s, 1, Len(s) - 1)) ELSE s

\* .replace(/^-+|-+$/g, '')
stripHyphens(s) == stripTrailingHyphens(stripLeadingHyphens(s))

slugify_keepEdgeHyphens(title) == replaceNonAlnumRuns(trim(toLowerCase(title)), FALSE)

slugify(title) == stripHyphens(replaceNonAlnumRuns(trim(toLowerCase(title)), FALSE))

-----------------------------------------------------------------------------
(* normalizeTime *)

Ok(v) == [ok |-> TRUE, value |-> v]
Err(m) == [ok |-> FALSE, error |-> m]

ErrTimeFormat == "Invalid event time format. Expected HH:MM"
ErrTimeValue == "Invalid event time value"
ErrDate == "Invalid event date"
ErrSlug == "Unable to generate slug from title"

DigitValue(c) ==
    CASE c = "0" -> 0 [] c = "1" -> 1 [] c = "2" -> 2 [] c = "3" -> 3 [] c = "4" -> 4
      [] c = "5" -> 5 [] c = "6" -> 6 [] c = "7" -> 7 [] c = "8" -> 8 [] c = "9" -> 9

DigitOf(n) == CHOOSE c \in DigitChars : DigitValue(c) = n

\* Number(...) of a string of digits
RECURSIVE NumberOf(_)
NumberOf(s) ==
    IF s = <<>> THEN 0 ELSE 10 * NumberOf(SubSeq(s, 1, Len(s) - 1)) + DigitValue(s[Len(s)])

\* Number.prototype.toString for a number below 100
numberToString(n) == IF n < 10 THEN <<DigitOf(n)>> ELSE <<DigitOf(n \div 10), DigitOf(n % 10)>>

\* .padStart(2, '0')
padStart2(s) == IF Len(s) < 2 THEN <<"0">> \o s ELSE s

AllDigits(s) == \A i \in 1..Len(s) : s[i] \in DigitChars

\* trimmed.match(/^(\d{1,2}):(\d{2})$/): the two groups, or None
timeMatch(s) ==
    IF Len(s) \in {4, 5} /\ s[Len(s) - 2] = ":"
         /\ AllDigits(SubSeq(s, 1, Len(s) - 3)) /\ AllDigits(SubSeq(s, Len(s) - 1, Len(s)))
    THEN <<SubSeq(s, 1, Len(s) - 3), SubSeq(s, Len(s) - 1, Len(s))>>
    ELSE None

timeInRange_noUpper(hours, minutes) == ~(hours < 0 \/ minutes < 0 \/ minutes > 59)

timeInRange(hours, minutes) == ~(hours < 0 \/ hours > 23 \/ minutes < 0 \/ minutes > 59)

normalizeTime(timeInput) ==
    LET trimmed == trim(timeInput)
        match == timeMatch(trimmed)
    IN  IF match = None THEN Err(ErrTimeFormat)
        ELSE LET hours == NumberOf(match[1])
                 minutes == NumberOf(match[2])
             IN  IF ~timeInRange(hours, minutes) THEN Err(ErrTimeValue)
                 ELSE Ok(padStart2(numberToString(hours)) \o <<":">> \o padStart2(numberToString(minutes)))

-----------------------------------------------------------------------------
(* The slug step of the Event pre-validate hook *)

generateSlug(title) ==
    LET generatedSlug == slugify(title)
    IN  IF generatedSlug = <<>> THEN Err(ErrSlug) ELSE Ok(generatedSlug)

-----------------------------------------------------------------------------
(* Initial values of the three groups of variables *)

Callers == 1..NumCallers

ConnInit ==
    /\ cachedConn = 0
    /\ cachedPromise = 0
    /\ promiseState = <<>>
    /\ connectCalls = 0
    /\ pc = [p \in Callers |-> "idle"]
    /\ awaiting = [p \in Callers |-> 0]
    /\ ret = [p \in Callers |-> 0]
    /\ via = [p \in Callers |-> "none"]
    /\ calls = [p \in Callers |-> 0]

DbInit ==
    /\ events = <<>>
    /\ bookings = <<>>
    /\ eventDoc = None
    /\ bookingSave = [phase |-> "idle"]

FnIdle == arg = None /\ res = None

-----------------------------------------------------------------------------
(* normalizeDate *)

\* `new Date(dateInput)` followed by `toISOString().split('T')[0]`, on the date strings
\* the model uses, each written as a string of one symbol: a date-only ISO string is
\* read as UTC midnight, a date-time with an offset is converted to UTC (23:30 at -05:00
\* is 04:30 of the next day), and a string that is no date gives NaN.
normalizeDate(dateInput) ==
    CASE dateInput = <<"2025-01-31">> -> Ok(<<"2025-01-31">>)
      [] dateInput = <<"2025-02-01">> -> Ok(<<"2025-02-01">>)
      [] dateInput = <<"2025-01-31T23:30:00-05:00">> -> Ok(<<"2025-02-01">>)
      [] OTHER -> Err(ErrDate)

-----------------------------------------------------------------------------
(* The Event model *)

\* title, slug, date and time, and description for the required string fields that no
\* hook touches (overview, image, venue, location, mode, audience, organizer)
EventFields == {"title", "slug", "description", "date", "time"}

\* a field that was never set, and a field that an assignment leaves alone
Undefined == <<"(undefined)">>
Unset == <<"(unset)">>
Deleted == [deleted |-> TRUE]

ErrRequired == "This field is required."
ErrDuplicateSlug == "E11000 duplicate key error: slug"

\* the values a caller assigns to the fields
TitleInputs == {<<"H", "i">>, <<" ", "h", "i", "!">>, <<"!">>}
SlugInputs == {<<"x">>}
DescriptionInputs == {<<"a">>, <<"b">>, <<" ">>}
DateInputs == {<<"2025-01-31">>, <<"2025-01-31T23:30:00-05:00">>, <<"not-a-date">>}
TimeInputs == {<<"9", ":", "0", "0">>, <<"9", ":", "0">>}

InputsOf(f) ==
    CASE f = "title" -> TitleInputs
      [] f = "slug" -> SlugInputs
      [] f = "description" -> DescriptionInputs
      [] f = "date" -> DateInputs
      [] f = "time" -> TimeInputs

\* `trim: true` of the schema: the setter applied when a string field is assigned
setField(f, v) == trim(v)

Persisted(id) == id \in DOMAIN events /\ events[id] # Deleted

\* a new document, before any field is set
BlankDoc == [f \in EventFields |-> Undefined]

\* the document in memory after the assignments `mods` (field -> value) to the
\* document `base` (a blank one, or one loaded from the collection)
AssignedDoc(base, mods) ==
    [f \in EventFields |-> IF f \in DOMAIN mods THEN setField(f, mods[f]) ELSE base[f]]

\* isModified(f): a path of a new document that was set, or a path of a loaded
\* document that was set to another value than the one loaded
ModifiedPaths(isNew, base, mods) ==
    {f \in DOMAIN mods : isNew \/ setField(f, mods[f]) # base[f]}

\* `this.isNew || this.isModified('title')`
regeneratesSlug_onlyWhenNew(isNew, modified) == isNew

regeneratesSlug_onDescription(isNew, modified) ==
    isNew \/ "title" \in modified \/ "description" \in modified

regeneratesSlug(isNew, modified) == isNew \/ "title" \in modified

\* The pre-validate hook: the document it leaves in memory, or the error it passes to next
preValidate_timeErrorIgnored(doc, isNew, modified) ==
    LET slugStep == IF regeneratesSlug(isNew, modified) THEN generateSlug(doc.title) ELSE Ok(doc.slug)
        dateStep == IF "date" \in modified THEN normalizeDate(doc.date) ELSE Ok(doc.date)
        timeStep == IF "time" \in modified THEN normalizeTime(doc.time) ELSE Ok(doc.time)
    IN  IF ~slugStep.ok THEN slugStep
        ELSE IF ~dateStep.ok THEN dateStep
        ELSE Ok([doc EXCEPT !.slug = slugStep.value, !.date = dateStep.value,
                            !.time = IF timeStep.ok THEN timeStep.value ELSE doc.time])

preValidate(doc, isNew, modified) ==
    LET slugStep == IF regeneratesSlug(isNew, modified) THEN generateSlug(doc.title) ELSE Ok(doc.slug)
        dateStep == IF "date" \in modified THEN normalizeDate(doc.date) ELSE Ok(doc.date)
        timeStep == IF "time" \in modified THEN normalizeTime(doc.time) ELSE Ok(doc.time)
    IN  IF ~slugStep.ok THEN slugStep
        ELSE IF ~dateStep.ok THEN dateStep
        ELSE IF ~timeStep.ok THEN timeStep
        ELSE Ok([doc EXCEPT !.slug = slugStep.value, !.date = dateStep.value, !.time = timeStep.value])

\* requiredStringField and the required slug: present and not empty once trimmed
validEventDoc(doc) ==
    \A f \in EventFields :
        /\ doc[f] # Undefined
        /\ trim(doc[f]) # <<>>

\* the unique index on slug: another persisted Event holds this slug
slugTaken(id, slug) ==
    \E other \in DOMAIN events : other # id /\ events[other] # Deleted /\ events[other].slug = slug

ErrNotFound == "DocumentNotFoundError"

\* doc.save() of an Event: the pre-validate hook, the validation of the schema, the write
saveOutcome(id, doc, isNew, modified) ==
    LET hook == preValidate(doc, isNew, modified)
    IN  IF ~hook.ok THEN hook
        ELSE IF ~validEventDoc(hook.value) THEN Err(ErrRequired)
        ELSE IF ~isNew /\ ~Persisted(id) THEN Err(ErrNotFound)
        ELSE IF slugTaken(id, hook.value.slug) THEN Err(ErrDuplicateSlug)
        ELSE hook

\* A new Event (target = 0, base blank) or the Event `target` loaded as `base`, changed
\* by the assignments `mods`, is saved.
SaveEvent(target, base, mods) ==
    LET isNew == target = 0
        id == IF isNew THEN Len(events) + 1 ELSE target
        doc == AssignedDoc(base, mods)
        modified == ModifiedPaths(isNew, base, mods)
        outcome == saveOutcome(id, doc, isNew, modified)
    IN  /\ events' = IF ~outcome.ok THEN events
                     ELSE IF isNew THEN Append(events, outcome.value)
                     ELSE [events EXCEPT ![id] = outcome.value]
        /\ eventDoc' = [phase |-> "saved", id |-> id, isNew |-> isNew,
                        modified |-> modified, outcome |-> outcome]
        /\ UNCHANGED <<bookings, bookingSave, connVars, fnVars>>

Editing == eventDoc # None /\ eventDoc.phase = "editing"
Saved == eventDoc # None /\ eventDoc.phase = "saved"

\* new Event(): a document in memory with no field set yet
NewEvent ==
    /\ ~Editing
    /\ Len(events) < MaxEvents
    /\ eventDoc' = [phase |-> "editing", target |-> 0, base |-> BlankDoc, mods |-> <<>>]
    /\ UNCHANGED <<events, bookings, bookingSave, connVars, fnVars>>

\* Event.findById(id): a persisted Event is loaded into memory
LoadEvent ==
    \E id \in 1..MaxEvents :
        /\ ~Editing
        /\ Persisted(id)
        /\ eventDoc' = [phase |-> "editing", target |-> id, base |-> events[id], mods |-> <<>>]
        /\ UNCHANGED <<events, bookings, bookingSave, connVars, fnVars>>

\* doc.f = v, once per field
AssignField ==
    \E f \in EventFields : \E v \in InputsOf(f) :
        /\ Editing
        /\ f \notin DOMAIN eventDoc.mods
        /\ eventDoc' = [eventDoc EXCEPT !.mods = [g \in DOMAIN @ \cup {f} |-> IF g = f THEN v ELSE @[g]]]
        /\ UNCHANGED <<events, bookings, bookingSave, connVars, fnVars>>

\* doc.save(); a new Event is given title, description, date and time first
SaveEditedEvent ==
    /\ Editing
    /\ eventDoc.target = 0 => EventFields \ {"slug"} \subseteq DOMAIN eventDoc.mods
    /\ SaveEvent(eventDoc.target, eventDoc.base, eventDoc.mods)

\* Event.deleteOne({ _id: id }) through the exported model
DeleteEvent ==
    \E id \in 1..MaxEvents :
        /\ Persisted(id)
        /\ events' = [events EXCEPT ![id] = Deleted]
        /\ UNCHANGED <<eventDoc, bookings, bookingSave, connVars, fnVars>>

Next ==
    \/ NewEvent
    \/ LoadEvent
    \/ AssignField
    \/ SaveEditedEvent
    \/ DeleteEvent

Init == ConnInit /\ DbInit /\ FnIdle

Spec == Init /\ [][Next]_vars

-----------------------------------------------------------------------------
(* The Booking model *)

BookingFields == {"eventId", "email"}

ErrEmail == "Invalid email address."
ErrEventIdRequired == "Path eventId is required."
ErrEmailRequired == "Path email is required."
ErrNoEvent == "Cannot create booking: referenced event does not exist."

\* the values a caller assigns: an ObjectId (the Events ever inserted have the ids
\* 1..MaxEvents, in insertion order; 0 stands for no assignment) and an address
EventIdInputs == 1..MaxEvents
EmailInputs == {<<" ", "A", "@", "b", ".", "a">>, <<"b", "@", "b", ".", "a">>, <<"a", "@", "b">>}

\* [^\s@]
EmailChar(c) == c \notin WhiteSpaceChars \cup {"@"}

\* EMAIL_REGEX.test(value): /^[^\s@]+@[^\s@]+\.[^\s@]+$/
emailMatches(s) ==
    \E i, j \in 1..Len(s) :
        /\ s[i] = "@" /\ s[j] = "."
        /\ 1 < i /\ i + 1 < j /\ j < Len(s)
        /\ \A k \in 1..Len(s) : k # i => EmailChar(s[k])

\* `trim: true, lowercase: true`: the setters of email
setEmail(v) == toLowerCase(trim(v))

BlankBooking == [eventId |-> 0, email |-> Undefined]

\* the Booking in memory after the assignments `mods` to `base`; eventId 0 is a
\* reference that was never set
AssignedBooking(base, mods) ==
    [eventId |-> IF "eventId" \in DOMAIN mods THEN mods["eventId"] ELSE base.eventId,
     email |-> IF "email" \in DOMAIN mods THEN setEmail(mods["email"]) ELSE base.email]

ModifiedBookingPaths(isNew, base, mods) ==
    {f \in DOMAIN mods : isNew \/ AssignedBooking(base, mods)[f] # base[f]}

\* the validation of the schema, which save() runs before the pre-save hooks
validateBooking(doc) ==
    IF doc.eventId = 0 THEN Err(ErrEventIdRequired)
    ELSE IF doc.email = Undefined \/ doc.email = <<>> THEN Err(ErrEmailRequired)
    ELSE IF ~emailMatches(doc.email) THEN Err(ErrEmail)
    ELSE Ok(doc)

\* `if (!this.isModified('eventId')) return next()`
skipsCheck_always(modified) == TRUE

skipsCheck(modified) == "eventId" \notin modified

\* `if (!eventExists) throw ...`: whether the hook lets the save go on
referenceOk_unchecked(eventExists) == TRUE

referenceOk(eventExists) == eventExists

BookingPersisted(b) == b \in DOMAIN bookings

\* what is kept of a save that has ended
Done(save, outcome) ==
    [phase |-> "done", isNew |-> save.isNew, modified |-> save.modified,
     eventId |-> save.doc.eventId, outcome |-> outcome]

\* booking.save() up to the first suspension: the document is validated and the
\* pre-save hook starts; it either calls next() at once or issues Event.exists.
BeginBookingSave ==
    \E target \in 0..MaxBookings :
    \E eventId \in EventIdInputs \cup {0} : \E email \in EmailInputs \cup {Unset} :
        LET mods == (IF eventId # 0 THEN [f \in {"eventId"} |-> eventId] ELSE <<>>)
                        @@ (IF email # Unset THEN [f \in {"email"} |-> email] ELSE <<>>)
            isNew == target = 0
            base == IF isNew THEN BlankBooking ELSE bookings[target]
            doc == AssignedBooking(base, mods)
            modified == ModifiedBookingPaths(isNew, base, mods)
            valid == validateBooking(doc)
            save == [target |-> target, isNew |-> isNew, doc |-> doc, modified |-> modified]
        IN  /\ bookingSave.phase \in {"idle", "done"}
            /\ IF isNew THEN Len(bookings) < MaxBookings ELSE BookingPersisted(target)
            /\ bookingSave' =
                   IF ~valid.ok THEN Done(save, Err(valid.error))
                   ELSE IF skipsCheck(modified) THEN [phase |-> "writing", save |-> save]
                   ELSE [phase |-> "checking", save |-> save]
            /\ UNCHANGED <<events, bookings, eventDoc, connVars, fnVars>>

\* `await Event.exists({ _id: this.eventId })` resolves with what the collection holds
\* at that moment, and the hook calls next() or next(error)
CheckEventExists ==
    /\ bookingSave.phase = "checking"
    /\ LET save == bookingSave.save
           eventExists == Persisted(save.doc.eventId)
       IN  bookingSave' =
               IF referenceOk(eventExists) THEN [phase |-> "writing", save |-> save]
               ELSE Done(save, Err(ErrNoEvent))
    /\ UNCHANGED <<events, bookings, eventDoc, connVars, fnVars>>

\* the hooks are through: the Booking is inserted, or its modified paths are updated
WriteBooking ==
    /\ bookingSave.phase = "writing"
    /\ LET save == bookingSave.save
       IN  /\ bookings' = IF save.isNew THEN Append(bookings, save.doc)
                          ELSE [bookings EXCEPT ![save.target] =
                                   [f \in BookingFields |->
                                       IF f \in save.modified THEN save.doc[f] ELSE @[f]]]
           /\ bookingSave' = Done(save, [ok |-> TRUE])
    /\ UNCHANGED <<events, eventDoc, connVars, fnVars>>

\* the assignments that make a valid new Event
ValidEvent ==
    [title |-> <<"H", "i">>, description |-> <<"a">>,
     date |-> <<"2025-01-31">>, time |-> <<"9", ":", "0", "0">>]

\* new Event(ValidEvent).save() by a caller that does not keep the document,
\* when the save succeeds
InsertEvent ==
    LET id == Len(events) + 1
        outcome == saveOutcome(id, AssignedDoc(BlankDoc, ValidEvent), TRUE, DOMAIN ValidEvent)
    IN  /\ Len(events) < MaxEvents
        /\ outcome.ok
        /\ events' = Append(events, outcome.value)
        /\ UNCHANGED <<eventDoc, bookings, bookingSave, connVars, fnVars>>

BookingNext ==
    \/ BeginBookingSave
    \/ CheckEventExists
    \/ WriteBooking
    \/ InsertEvent
    \/ DeleteEvent

BookingSpec == Init /\ [][BookingNext]_vars

-----------------------------------------------------------------------------
(* connectToDatabase and the connection attempt it starts *)

\* `if (cached.conn)`: the cached handle is returned at once
hitsCache_never(conn) == FALSE

hitsCache(conn) == conn # 0

\* `if (!cached.promise)`: a connection attempt is started
startsConnect_always(promise, state) == TRUE

startsConnect_afterRejection(promise, state) == promise = 0 \/ state[promise] = "rejected"

startsConnect(promise, state) == promise = 0

\* One call, up to its return or to its suspension at `await cached.promise`. The code
\* between the entry and the await runs without interruption.
Call(p) ==
    /\ pc[p] # "awaiting"
    /\ calls[p] < MaxCalls
    /\ calls' = [calls EXCEPT ![p] = @ + 1]
    /\ IF hitsCache(cachedConn)
       THEN /\ pc' = [pc EXCEPT ![p] = "returned"]
            /\ ret' = [ret EXCEPT ![p] = cachedConn]
            /\ via' = [via EXCEPT ![p] = "cache"]
            /\ awaiting' = [awaiting EXCEPT ![p] = 0]
            /\ UNCHANGED <<cachedConn, cachedPromise, promiseState, connectCalls>>
       ELSE LET start == startsConnect(cachedPromise, promiseState)
                k == IF start THEN connectCalls + 1 ELSE cachedPromise
            IN  /\ connectCalls' = IF start THEN connectCalls + 1 ELSE connectCalls
                /\ cachedPromise' = k
                /\ promiseState' = IF start THEN Append(promiseState, "pending") ELSE promiseState
                /\ awaiting' = [awaiting EXCEPT ![p] = k]
                /\ pc' = [pc EXCEPT ![p] = "awaiting"]
                /\ via' = [via EXCEPT ![p] =
                              IF start THEN "start"
                              ELSE IF promiseState[k] = "pending" THEN "joinPending"
                              ELSE "joinSettled"]
                /\ UNCHANGED <<cachedConn, ret>>
    /\ UNCHANGED <<dbVars, fnVars>>

\* mongoose.connect succeeds: its promise resolves to the handle of that attempt
ConnectResolves(k) ==
    /\ k \in DOMAIN promiseState
    /\ promiseState[k] = "pending"
    /\ promiseState' = [promiseState EXCEPT ![k] = "resolved"]
    /\ UNCHANGED <<cachedConn, cachedPromise, connectCalls, pc, awaiting, ret, via, calls, dbVars, fnVars>>

\* mongoose.connect fails: its promise rejects with the error of that attempt
ConnectRejects(k) ==
    /\ k \in DOMAIN promiseState
    /\ promiseState[k] = "pending"
    /\ promiseState' = [promiseState EXCEPT ![k] = "rejected"]
    /\ UNCHANGED <<cachedConn, cachedPromise, connectCalls, pc, awaiting, ret, via, calls, dbVars, fnVars>>

\* The call resumes after its await: `cached.conn = await cached.promise; return cached.conn`,
\* or the rejection is thrown out of the function.
Resume(p) ==
    /\ pc[p] = "awaiting"
    /\ promiseState[awaiting[p]] # "pending"
    /\ IF promiseState[awaiting[p]] = "resolved"
       THEN /\ cachedConn' = awaiting[p]
            /\ pc' = [pc EXCEPT ![p] = "returned"]
       ELSE /\ UNCHANGED cachedConn
            /\ pc' = [pc EXCEPT ![p] = "threw"]
    /\ ret' = [ret EXCEPT ![p] = awaiting[p]]
    /\ awaiting' = [awaiting EXCEPT ![p] = 0]
    /\ UNCHANGED <<cachedPromise, promiseState, connectCalls, via, calls, dbVars, fnVars>>

ConnNext ==
    \/ \E p \in Callers : Call(p)
    \/ \E k \in 1..(NumCallers * MaxCalls) : ConnectResolves(k)
    \/ \E k \in 1..(NumCallers * MaxCalls) : ConnectRejects(k)
    \/ \E p \in Callers : Resume(p)

ConnSpec == Init /\ [][ConnNext]_vars

-----------------------------------------------------------------------------
(* slugify and normalizeTime applied to every string within the bounds *)

TitleAlphabet == {"a", "B", "7", "-", " ", "!", "E_ACUTE"}
TimeAlphabet == {"0", "2", "9", ":", " ", "P"}

\* every string of one or two digits, a colon and two digits
ClockInputs ==
    {h \o <<":">> \o m : h \in [1..1 -> DigitChars] \cup [1..2 -> DigitChars], m \in [1..2 -> DigitChars]}

SlugInit ==
    /\ ConnInit /\ DbInit
    /\ \E n \in 0..MaxTitleLen : arg \in [1..n -> TitleAlphabet]
    /\ res = None

ApplySlug ==
    /\ res = None
    /\ res' = generateSlug(arg)
    /\ UNCHANGED <<arg, connVars, dbVars>>

SlugSpec == SlugInit /\ [][ApplySlug]_vars

TimeInit ==
    /\ ConnInit /\ DbInit
    /\ \/ \E n \in 0..MaxTimeLen : arg \in [1..n -> TimeAlphabet]
       \/ arg \in ClockInputs
    /\ res = None

ApplyTime ==
    /\ res = None
    /\ res' = normalizeTime(arg)
    /\ UNCHANGED <<arg, connVars, dbVars>>

TimeSpec == TimeInit /\ [][ApplyTime]_vars

-----------------------------------------------------------------------------
(* C7 *)

\* an alphanumeric character: one that toLowerCase takes into a-z or 0-9, the class the
\* source calls alphanumeric
IsAlnum(c) == SlugChar(toLowerCaseChar(c))

WellFormedSlug(s) ==
    /\ s # <<>>
    /\ \A i \in 1..Len(s) : SlugChar(s[i]) \/ s[i] = "-"
    /\ s[1] # "-"
    /\ s[Len(s)] # "-"
    /\ \A i \in 1..(Len(s) - 1) : ~(s[i] = "-" /\ s[i + 1] = "-")

\* C7: a title with an alphanumeric character gets a non-empty slug of lowercase
\* letters, digits and hyphens with no leading, trailing or doubled hyphen; a title
\* with none gets the empty string, which the hook turns into the failure "Unable to
\* generate slug from title".
C7_SlugifyShape ==
    res # None =>
        IF \E i \in 1..Len(arg) : IsAlnum(arg[i])
        THEN res.ok /\ res.value = slugify(arg) /\ WellFormedSlug(res.value)
        ELSE slugify(arg) = <<>> /\ res = Err(ErrSlug)

\* "a! -B" has been slugified to "a-b"
C7_Witness ==
    /\ arg = <<"a", "!", " ", "B">>
    /\ res = Ok(<<"a", "-", "b">>)

-----------------------------------------------------------------------------
(* C8 *)

\* the shape H:MM or HH:MM
HasTimeShape(s) ==
    /\ Len(s) \in {4, 5}
    /\ s[Len(s) - 2] = ":"
    /\ \A i \in 1..Len(s) : i # Len(s) - 2 => s[i] \in DigitChars

HourOf(s) == NumberOf(SubSeq(s, 1, Len(s) - 3))
MinuteOf(s) == NumberOf(SubSeq(s, Len(s) - 1, Len(s)))

TwoDigits(n) == <<DigitOf(n \div 10), DigitOf(n % 10)>>

TimeContract(s, r) ==
    IF ~HasTimeShape(s) THEN r = Err(ErrTimeFormat)
    ELSE IF HourOf(s) > 23 \/ MinuteOf(s) > 59 THEN r = Err(ErrTimeValue)
    ELSE r = Ok(TwoDigits(HourOf(s)) \o <<":">> \o TwoDigits(MinuteOf(s)))

\* C8 as stated: every input that is not exactly H:MM or HH:MM is a format error.
C8_ExactShape == res # None => TimeContract(arg, res)

\* C8: normalizeTime accepts exactly the inputs that, once surrounding white space is
\* trimmed, have the shape H:MM or HH:MM; any other input is a format error, an hour
\* above 23 or a minute above 59 a range error, and otherwise the result is the hour and
\* the minute each padded to two digits.
C8_ShapeAfterTrim == res # None => TimeContract(trim(arg), res)

\* " 9:00" has been normalised to "09:00"
C8_Witness ==
    /\ arg = <<" ", "9", ":", "0", "0">>
    /\ res = Ok(<<"0", "9", ":", "0", "0">>)

-----------------------------------------------------------------------------
(* C1 *)

\* C1: whatever the number and the interleaving of the calls, mongoose.connect is
\* invoked at most once, and the callers that return all return the one handle which
\* that attempt resolved to.
C1_SingleConnect ==
    /\ connectCalls <= 1
    /\ \A p \in Callers : pc[p] = "returned" =>
           /\ promiseState[1] = "resolved"
           /\ ret[p] = 1
           /\ \A q \in Callers : pc[q] = "returned" => ret[q] = ret[p]

\* every caller has returned; one started the attempt and all the others joined it
\* while it was pending
C1_Witness ==
    /\ connectCalls = 1
    /\ \A p \in Callers : pc[p] = "returned" /\ ret[p] = 1
    /\ \E p \in Callers :
           /\ via[p] = "start"
           /\ \A q \in Callers \ {p} : via[q] = "joinPending"

-----------------------------------------------------------------------------
(* C2 *)

Rejected == cachedPromise # 0 /\ promiseState[cachedPromise] = "rejected"

\* C2: once the connection attempt has failed, the rejected promise stays in the cache,
\* cached.conn stays null, no further attempt is started, no caller returns a handle,
\* and every call that has ended, whether it was awaiting the promise or was made
\* later, has thrown that attempt's error.
C2_FailureIsShared ==
    /\ [](Rejected =>
            /\ cachedConn = 0
            /\ connectCalls = 1
            /\ \A p \in Callers :
                   /\ pc[p] # "returned"
                   /\ pc[p] = "threw" => ret[p] = cachedPromise
                   /\ pc[p] = "awaiting" => awaiting[p] = cachedPromise)
    /\ [][Rejected =>
            /\ Rejected'
            /\ cachedPromise' = cachedPromise
            /\ connectCalls' = connectCalls]_vars

\* the attempt failed; one caller that was awaiting it and one that called afterwards
\* have both thrown its error
C2_Witness ==
    /\ Rejected
    /\ connectCalls = 1
    /\ \E p, q \in Callers :
           /\ pc[p] = "threw" /\ via[p] = "joinPending" /\ ret[p] = cachedPromise
           /\ pc[q] = "threw" /\ via[q] = "joinSettled" /\ ret[q] = cachedPromise

-----------------------------------------------------------------------------
(* C10 *)

\* C10: cached.conn is set only when cached.promise is set and has resolved to that
\* handle; cached.promise, once set, is never replaced or cleared; cached.conn, once
\* set, never changes, and a call made from then on returns it without starting or
\* awaiting a connection attempt.
C10_CacheInvariant ==
    /\ [](cachedConn # 0 =>
            /\ cachedPromise # 0
            /\ promiseState[cachedPromise] = "resolved"
            /\ cachedConn = cachedPromise)
    /\ [][cachedPromise # 0 => cachedPromise' = cachedPromise]_vars
    /\ [][cachedConn # 0 =>
            /\ cachedConn' = cachedConn
            /\ connectCalls' = connectCalls
            /\ \A p \in Callers : calls'[p] # calls[p] =>
                   /\ pc'[p] = "returned"
                   /\ ret'[p] = cachedConn
                   /\ via'[p] = "cache"
                   /\ awaiting'[p] = 0]_vars

\* a second call of a caller has returned the cached handle by the fast path, while
\* another caller is still suspended at its await
C10_Witness ==
    \E p, q \in Callers :
        /\ calls[p] = 2 /\ pc[p] = "returned" /\ via[p] = "cache" /\ ret[p] = cachedConn
        /\ cachedConn # 0
        /\ pc[q] = "awaiting"

-----------------------------------------------------------------------------
(* C4, C5, C6: a step of SaveEditedEvent takes a document being edited to a saved one *)

SaveStep == Editing /\ Saved'

\* the document in memory when save() is called, and what the steps of the hook make of it
DocAtSave == AssignedDoc(eventDoc.base, eventDoc.mods)
TitleSaved == eventDoc'.isNew \/ "title" \in eventDoc'.modified

SlugStepOk == TitleSaved => slugify(DocAtSave.title) # <<>>
DateStepOk == "date" \in eventDoc'.modified => normalizeDate(DocAtSave.date).ok
TimeStepOk == "time" \in eventDoc'.modified => normalizeTime(DocAtSave.time).ok

ExpectedDoc ==
    [DocAtSave EXCEPT
        !.slug = IF TitleSaved THEN slugify(DocAtSave.title) ELSE @,
        !.date = IF "date" \in eventDoc'.modified THEN normalizeDate(@).value ELSE @,
        !.time = IF "time" \in eventDoc'.modified THEN normalizeTime(@).value ELSE @]

WrittenAsExpected ==
    events' = IF eventDoc'.isNew THEN Append(events, ExpectedDoc)
              ELSE [events EXCEPT ![eventDoc'.id] = ExpectedDoc]

\* C4 as stated: every persisted Event's slug is slugify of its persisted title.
C4_SlugAlwaysFromTitle ==
    \A id \in DOMAIN events : events[id] # Deleted => events[id].slug = slugify(events[id].title)

\* C4: a successful save that creates the Event or modifies its title persists
\* slug = slugify(persisted title), whatever was assigned to slug; a successful save
\* that assigns slug without modifying title persists the assigned slug, and one that
\* does neither leaves the persisted slug as it was.
C4_SlugFollowsSavedTitle ==
    [][SaveStep /\ eventDoc'.outcome.ok =>
          LET id == eventDoc'.id
          IN  IF TitleSaved THEN events'[id].slug = slugify(events'[id].title)
              ELSE IF "slug" \in DOMAIN eventDoc.mods
                   THEN events'[id].slug = trim(eventDoc.mods["slug"])
              ELSE events'[id].slug = events[id].slug]_vars

\* a loaded Event whose title and slug were both assigned has been saved, and its
\* persisted slug is the one generated from the new title
C4_Witness ==
    /\ Saved /\ eventDoc.outcome.ok /\ ~eventDoc.isNew
    /\ {"title", "slug"} \subseteq eventDoc.modified
    /\ Persisted(eventDoc.id)
    /\ events[eventDoc.id].slug = slugify(events[eventDoc.id].title)

\* C5: saving a persisted Event of which only description was assigned leaves its
\* persisted slug, date and time (and title) as they were.
C5_DescriptionOnly ==
    [][SaveStep /\ ~eventDoc'.isNew /\ DOMAIN eventDoc.mods = {"description"} =>
          LET id == eventDoc'.id
          IN  IF events[id] = Deleted THEN events' = events
              ELSE \A f \in {"slug", "date", "time", "title"} : events'[id][f] = events[id][f]]_vars

\* the description of an Event whose slug had been assigned directly has been changed
\* and saved, and the slug is still the assigned one
C5_Witness ==
    /\ Saved /\ eventDoc.outcome.ok /\ ~eventDoc.isNew
    /\ eventDoc.modified = {"description"}
    /\ Persisted(eventDoc.id)
    /\ events[eventDoc.id].description = <<"b">>
    /\ events[eventDoc.id].slug = <<"x">>
    /\ events[eventDoc.id].title = <<"H", "i">>

\* C6 as stated: either the three steps all succeed and the Event is written, or one
\* of them fails and the collection is unchanged.
C6_ThreeStepsDecide ==
    [][SaveStep =>
          \/ SlugStepOk /\ DateStepOk /\ TimeStepOk /\ WrittenAsExpected
          \/ ~(SlugStepOk /\ DateStepOk /\ TimeStepOk) /\ events' = events]_vars

\* C6: an Event save writes the whole document or nothing. Either it succeeds, which
\* requires slug generation, date normalisation and time normalisation all to succeed,
\* and the Event is written with the generated slug and the normalised date and time;
\* or it fails and the collection is left unchanged. A failing step always aborts the
\* write; the three succeeding does not ensure it (a required field may be empty, the
\* slug may be taken, the document may be gone).
C6_NoPartialWrite ==
    [][SaveStep =>
          /\ \/ /\ eventDoc'.outcome.ok
                /\ SlugStepOk /\ DateStepOk /\ TimeStepOk
                /\ WrittenAsExpected
             \/ /\ ~eventDoc'.outcome.ok
                /\ events' = events
          /\ ~(SlugStepOk /\ DateStepOk /\ TimeStepOk) => ~eventDoc'.outcome.ok]_vars

\* a save has failed at the time step after the slug and the date steps had succeeded
C6_Witness ==
    /\ Saved /\ ~eventDoc.outcome.ok
    /\ eventDoc.outcome.error = ErrTimeFormat
    /\ {"title", "date", "time"} \subseteq eventDoc.modified
    /\ ~eventDoc.isNew

-----------------------------------------------------------------------------
(* C3, C9: the steps of a Booking save *)

\* save() is called: validation, and the start of the pre-save hook
BeginStep == bookingSave.phase \in {"idle", "done"} /\ bookingSave' # bookingSave
\* Event.exists resolves
CheckStep == bookingSave.phase = "checking" /\ bookingSave'.phase # "checking"
\* the Booking is written
WriteStep == bookingSave.phase = "writing" /\ bookingSave'.phase = "done"

NewBookingAfter ==
    IF bookingSave'.phase = "done" THEN bookingSave'.isNew ELSE bookingSave'.save.isNew

\* C3 as stated: a save of a new Booking that ends while its eventId matches no Event
\* ends with the referential-integrity error, the Booking collection unchanged.
C3_UnknownEventRejected ==
    [][(BeginStep \/ CheckStep) /\ bookingSave'.phase = "done" /\ bookingSave'.isNew
         /\ bookingSave'.eventId # 0 /\ ~Persisted(bookingSave'.eventId)
       => bookingSave'.outcome = Err(ErrNoEvent) /\ bookings' = bookings]_vars

\* C3: a new Booking that passes the validation of the schema always comes to the
\* existence check, and if its eventId matches no Event when the check resolves, the
\* save fails with the referential-integrity error and the Booking collection is
\* unchanged; a new Booking that does not pass the validation fails with the validation
\* error before the check, the collection unchanged as well.
C3_UnknownEventRejectedIfValid ==
    [][/\ BeginStep /\ NewBookingAfter =>
            /\ bookings' = bookings
            /\ \/ bookingSave'.phase = "checking"
               \/ /\ bookingSave'.phase = "done"
                  /\ ~bookingSave'.outcome.ok
                  /\ bookingSave'.outcome.error \in {ErrEventIdRequired, ErrEmailRequired, ErrEmail}
       /\ CheckStep /\ ~Persisted(bookingSave.save.doc.eventId) =>
            /\ bookingSave'.phase = "done"
            /\ bookingSave'.outcome = Err(ErrNoEvent)
            /\ bookings' = bookings]_vars

\* the save of a new Booking that refers to a deleted Event has failed with the
\* referential-integrity error, and the Booking saved before it is all the collection holds
C3_Witness ==
    /\ bookingSave.phase = "done"
    /\ bookingSave.isNew
    /\ bookingSave.outcome = Err(ErrNoEvent)
    /\ bookingSave.eventId \in DOMAIN events
    /\ events[bookingSave.eventId] = Deleted
    /\ Len(bookings) = 1

\* C9 as stated: when a Booking whose eventId was set or changed is written, the
\* referenced Event is in the collection.
C9_EventExistsAtWrite ==
    [][WriteStep /\ "eventId" \in bookingSave.save.modified
       => Persisted(bookingSave.save.doc.eventId)]_vars

\* C9: a Booking save in which eventId was set or changed comes to its write only
\* through the existence check, and the referenced Event is in the collection at the
\* moment that check resolves. It need not be there any more when the Booking is
\* written: nothing keeps the Event from being deleted between the check and the write.
C9_EventExistsAtCheck ==
    [][bookingSave'.phase = "writing" /\ bookingSave.phase # "writing"
         /\ "eventId" \in bookingSave'.save.modified
       => /\ CheckStep
          /\ bookingSave'.save = bookingSave.save
          /\ Persisted(bookingSave.save.doc.eventId)]_vars

\* the check has passed and the Booking not been written yet, and the Event it refers
\* to has been deleted
C9_Witness ==
    /\ bookingSave.phase = "writing"
    /\ "eventId" \in bookingSave.save.modified
    /\ events[bookingSave.save.doc.eventId] = Deleted

====
